---- MODULE Spec2Model ----
(***************************************************************************)
(* State-machine model of the visual anagram editor's controller           *)
(* (src/visual_anagram_editor/controller.py) and permutation model         *)
(* (src/visual_anagram_editor/permutation_model.py).                       *)
(*                                                                         *)
(* An Optional[T] attribute is a sequence of length at most one: <<>> is   *)
(* Python's None, <<v>> is the value v.  A pixel is the tuple              *)
(* <<r, g, b, a>> of uint8 channels; an image is a function from           *)
(* <<y, x>> to pixels; a Stroke is the sequence of its PixelChange         *)
(* records.                                                                *)
(***************************************************************************)
EXTENDS Integers, Sequences, FiniteSets, TLC

VARIABLES permutation, imgA, imgB, current_tool, brush_color,
          brush_opacity_percent, brush_radius, undo_stack, redo_stack,
          current_stroke, stroke_touched_A, flagged_mask_A, flagged_mask_B,
          hist, ur, last, used

progVars == <<permutation, imgA, imgB, current_tool, brush_color,
              brush_opacity_percent, brush_radius, undo_stack, redo_stack,
              current_stroke, stroke_touched_A, flagged_mask_A, flagged_mask_B>>

vars == <<permutation, imgA, imgB, current_tool, brush_color,
          brush_opacity_percent, brush_radius, undo_stack, redo_stack,
          current_stroke, stroke_touched_A, flagged_mask_A, flagged_mask_B,
          hist, ur, last, used>>

(***************************************************************************)
(* Bounds of the exploration.                                              *)
(***************************************************************************)
MaxStrokes == 2

MaxApply == 2

MaxSet == 1

MaxLoad == 2

(* Bounds of the exploration of loads between strokes, SpecReload. *)
ReloadStrokes == 2

ReloadApply == 2

ReloadLoad == 3

(* Bounds of the exploration of the tools within one stroke, SpecTools. *)
ToolStrokes == 1

ToolApply == 2

ToolSet == 1

ToolLoad == 2

(* The longest permutation array SpecPerm enumerates in full. *)
PermLen == 4

(* Bounds of the exploration of the blend on one pixel, SpecBlend. *)
BlendStrokes == 1

BlendApply == 1

(* Bounds of the exploration of pointer gestures, SpecGesture. *)
GestureStrokes == 2

GestureApply == 1

GestureSet == 1

GestureLoad == 2

(* Bounds of the deeper exploration of the history, SpecHistory. *)
DeepStrokes == 3

DeepApply == 3

DeepLoad == 2

(* self.max_undo, the configured maximum undo depth: the source's default  *)
(* of 50 scaled down, so that the stack fills up within the bounds.        *)
max_undo == 2

None == <<>>

Some(v) == <<v>>

BRUSH == "BRUSH"

ERASER == "ERASER"

EYEDROPPER == "EYEDROPPER"

Tool == {BRUSH, ERASER, EYEDROPPER}

eraser_color == <<0, 0, 0, 0>>

(***************************************************************************)
(* PermutationModel                                                        *)
(***************************************************************************)
SeqMin(s) == CHOOSE m \in {s[i] : i \in 1..Len(s)} : \A i \in 1..Len(s) : m <= s[i]

SeqMax(s) == CHOOSE m \in {s[i] : i \in 1..Len(s)} : \A i \in 1..Len(s) : m >= s[i]

(* int(np.sqrt(N)) *)
IntSqrt(n) == CHOOSE s \in 0..n : s * s <= n /\ (s + 1) * (s + 1) > n

(* A size test that accepts every length. *)
is_square_any(N) == TRUE

(* side * side != N, with side = int(np.sqrt(N)). *)
is_square(N) == IntSqrt(N) * IntSqrt(N) = N

RECURSIVE scatter_copy(_, _, _)
(* A scatter that writes perm_raw[i] at i: a copy where the inverse is due. *)
scatter_copy(data, k, acc) ==
    IF k > Len(data) THEN acc
    ELSE scatter_copy(data, k + 1, [acc EXCEPT ![k - 1] = data[k]])

RECURSIVE scatter(_, _, _)
(* inv_perm[perm_raw] = np.arange(N): entry perm_raw[i] receives i, for    *)
(* i = 0 .. N-1 in order.  acc starts as np.empty_like(perm_raw), whose    *)
(* entries are arbitrary (here -1) until written.                           *)
scatter(data, k, acc) ==
    IF k > Len(data) THEN acc
    ELSE scatter(data, k + 1, [acc EXCEPT ![data[k]] = k - 1])

(* PermutationModel.from_npy on the array np.load returned: None when a    *)
(* ValueError is raised, the PermutationModel otherwise.  perm_raw.min()   *)
(* of an empty array raises ValueError.                                    *)
from_npy(raw) ==
    LET N == Len(raw.data)
        side == IntSqrt(N)
    IN  IF raw.ndim # 1 THEN None
        ELSE IF Cardinality({raw.data[i] : i \in 1..N}) # N THEN None
        ELSE IF N = 0 THEN None
        ELSE IF SeqMin(raw.data) # 0 \/ SeqMax(raw.data) # N - 1 THEN None
        ELSE IF ~is_square(N) THEN None
        ELSE Some([H |-> side, W |-> side,
                   perm |-> [i \in 0..(N - 1) |-> raw.data[i + 1]],
                   inv_perm |-> scatter(raw.data, 1, [j \in 0..(N - 1) |-> -1])])

map_coords_A_to_B(p, y, x) ==
    LET idxB == p.perm[y * p.W + x]
    IN  <<idxB \div p.W, idxB % p.W>>

map_coords_B_to_A(p, y, x) ==
    LET idxA == p.inv_perm[y * p.W + x]
    IN  <<idxA \div p.W, idxA % p.W>>

Grid(p) == (0..(p.H - 1)) \X (0..(p.W - 1))

InBounds(p, y, x) == 0 <= y /\ y < p.H /\ 0 <= x /\ x < p.W

(***************************************************************************)
(* Inputs.                                                                 *)
(***************************************************************************)
PermInputs ==
    { [ndim |-> 1, data |-> <<1, 2, 3, 0>>],
      [ndim |-> 1, data |-> <<0>>],
      [ndim |-> 1, data |-> <<0, 1, 2>>],
      [ndim |-> 1, data |-> <<0, 0, 1, 2>>],
      [ndim |-> 1, data |-> <<0, 1, 2, 4>>],
      [ndim |-> 2, data |-> <<0, 1, 2, 3>>] }

(* Every 1-dimensional array of at most PermLen entries in 0..PermLen, the *)
(* arrays of PermInputs, and arrays of 9 entries for the 3 x 3 canvas.     *)
PermArrays ==
    { [ndim |-> 1, data |-> d] :
        d \in UNION { [1..k -> 0..PermLen] : k \in 0..PermLen } }
    \cup PermInputs
    \cup { [ndim |-> 1, data |-> <<0, 1, 2, 3, 4, 5, 6, 7, 8>>],
           [ndim |-> 1, data |-> <<1, 2, 3, 4, 5, 6, 7, 8, 0>>],
           [ndim |-> 1, data |-> <<8, 0, 4, 2, 6, 1, 7, 3, 5>>],
           [ndim |-> 1, data |-> <<0, 1, 2, 3, 4, 5, 6, 7, 7>>],
           [ndim |-> 1, data |-> <<1, 2, 3, 4, 5, 6, 7, 8, 9>>],
           [ndim |-> 2, data |-> <<0, 1, 2, 3, 4, 5, 6, 7, 8>>] }

(* The arrays of PermInputs that load. *)
ValidPermInputs == { raw \in PermInputs : from_npy(raw) # None }

(* Decoded and resized RGBA images of the canvas size. *)
ImageInputs(p) ==
    { [c \in Grid(p) |-> <<10 * (c[1] * p.W + c[2]), 7, 200, 128>>] }

ColorInputs == { <<255, 0, 0, 128>>, <<1, 0, 3, 255>> }

RadiusInputs == { 0, 1 }

OpacityInputs == { -10, 50, 120 }

CoordInputsA == { <<0, 0>>, <<-4, 0>> }

CoordInputsB == { <<-4, 0>> }

(* Image coordinates of a pointer event inside and above the canvas. *)
GestureCoordInputs == { <<0, 0>>, <<-1, 0>> }

(* Channel values at the ends and in the middle of the uint8 range. *)
ChannelInputs == { 0, 1, 2, 128, 255 }

(* Pixels of a decoded image: one low, one high and one middle channel,    *)
(* transparent or half transparent.                                        *)
BlendPixelInputs == { <<v, 255 - v, 128, a>> : v \in ChannelInputs, a \in {0, 128} }

(* Pixels given to the Eraser: those of BlendPixelInputs and the pixel of  *)
(* a fresh canvas.                                                         *)
EraserPixelInputs == BlendPixelInputs \cup { <<0, 0, 0, 0>> }

(* Brush colours as set_brush_color stores them. *)
BlendColorInputs == { <<b, b, 255 - b, 255>> : b \in ChannelInputs }

(* The values set_brush_opacity_percent can store. *)
BlendOpacityInputs == 0..100

(* Opacities held while the Eraser is the tool. *)
EraserOpacityInputs == { 0, 50, 100 }

(* Centres inside the canvas, one step outside it and a brush radius       *)
(* outside it, given to either side in SpecTools.                          *)
ToolCoordInputs == { <<0, 0>>, <<-1, 0>>, <<-4, 0>> }

(***************************************************************************)
(* Edit engine: blending and the synchronized pixel write.                 *)
(***************************************************************************)
(* A division by 100 that truncates. *)
RoundDiv100_floor(k) == k \div 100

(* np.round of k / 100.0 for an integer k >= 0: halves go to the even      *)
(* neighbour.                                                              *)
RoundDiv100(k) ==
    LET q == k \div 100
        rem == k % 100
    IN  IF rem < 50 THEN q
        ELSE IF rem > 50 THEN q + 1
        ELSE IF q % 2 = 0 THEN q ELSE q + 1

(* _blend_with_brush with self.brush_color = bcolor and                    *)
(* self.brush_opacity_percent = opacity.                                   *)
blend_with_brush(base_pixel, bcolor, opacity) ==
    IF opacity <= 0 THEN base_pixel
    ELSE IF opacity >= 100 THEN <<bcolor[1], bcolor[2], bcolor[3], base_pixel[4]>>
    ELSE <<RoundDiv100((100 - opacity) * base_pixel[1] + opacity * bcolor[1]) % 256,
           RoundDiv100((100 - opacity) * base_pixel[2] + opacity * bcolor[2]) % 256,
           RoundDiv100((100 - opacity) * base_pixel[3] + opacity * bcolor[3]) % 256,
           base_pixel[4]>>

(* A PixelChange that stores the A-side coordinate for both sides. *)
PixelChange_A_coordinates(yA, xA, oldA, newA, yB, xB, oldB, newB) ==
    [yA |-> yA, xA |-> xA, oldA |-> oldA, newA |-> newA,
     yB |-> yA, xB |-> xA, oldB |-> oldB, newB |-> newB]

PixelChange(yA, xA, oldA, newA, yB, xB, oldB, newB) ==
    [yA |-> yA, xA |-> xA, oldA |-> oldA, newA |-> newA,
     yB |-> yB, xB |-> xB, oldB |-> oldB, newB |-> newB]

(* The part of the state a pixel write reads and updates:                  *)
(* A = self.imgA, B = self.imgB, cs = self.current_stroke,                 *)
(* t = self._stroke_touched_A, br = brush colour and opacity.              *)
EditState(A, B, cs, t, bcolor, opacity) ==
    [A |-> A, B |-> B, cs |-> cs, t |-> t, bcolor |-> bcolor, opacity |-> opacity]

(* A write that forgets to mark the coordinate touched. *)
record_and_write_unmarked(st, yA, xA, yB, xB, oldA, oldB, new_color) ==
    [st EXCEPT
       !.cs = IF st.cs # None /\ (oldA # new_color \/ oldB # new_color)
              THEN Some(Append(st.cs[1],
                        PixelChange(yA, xA, oldA, new_color, yB, xB, oldB, new_color)))
              ELSE st.cs,
       !.A = [st.A EXCEPT ![<<yA, xA>>] = new_color],
       !.B = [st.B EXCEPT ![<<yB, xB>>] = new_color]]

(* A write that records a PixelChange whether or not a value changed. *)
record_and_write_always(st, yA, xA, yB, xB, oldA, oldB, new_color) ==
    [st EXCEPT
       !.cs = IF st.cs # None
              THEN Some(Append(st.cs[1],
                        PixelChange(yA, xA, oldA, new_color, yB, xB, oldB, new_color)))
              ELSE st.cs,
       !.t = IF st.cs # None /\ st.t # None
             THEN Some(st.t[1] \cup {<<yA, xA>>})
             ELSE st.t,
       !.A = [st.A EXCEPT ![<<yA, xA>>] = new_color],
       !.B = [st.B EXCEPT ![<<yB, xB>>] = new_color]]

(* Lines 167-187: record the change in the open stroke, mark the           *)
(* coordinate touched, write both buffers.                                 *)
record_and_write(st, yA, xA, yB, xB, oldA, oldB, new_color) ==
    [st EXCEPT
       !.cs = IF st.cs # None /\ (oldA # new_color \/ oldB # new_color)
              THEN Some(Append(st.cs[1],
                        PixelChange(yA, xA, oldA, new_color, yB, xB, oldB, new_color)))
              ELSE st.cs,
       !.t = IF st.cs # None /\ st.t # None
             THEN Some(st.t[1] \cup {<<yA, xA>>})
             ELSE st.t,
       !.A = [st.A EXCEPT ![<<yA, xA>>] = new_color],
       !.B = [st.B EXCEPT ![<<yB, xB>>] = new_color]]

(* A dedup test that never finds the coordinate. *)
never_touched(st, key) == FALSE

(* The dedup test of lines 158-161 and 201-204. *)
already_touched(st, key) ==
    st.cs # None /\ st.t # None /\ key \in st.t[1]

(* An A-side write whose row test starts one row early: numpy wraps the   *)
(* index -1 around to the last row.                                        *)
set_pixel_A_and_B_from_minus_one(p, st, yA, xA, color, blend) ==
    IF ~(-1 <= yA /\ yA < p.H /\ 0 <= xA /\ xA < p.W) THEN st
    ELSE LET cA == <<yA % p.H, xA>>
             cB == map_coords_A_to_B(p, cA[1], cA[2])
         IN  IF already_touched(st, cA) THEN st
             ELSE LET oldA == st.A[cA]
                      oldB == st.B[cB]
                      new_color == IF blend
                                   THEN blend_with_brush(oldA, st.bcolor, st.opacity)
                                   ELSE color
                  IN  record_and_write(st, cA[1], cA[2], cB[1], cB[2], oldA, oldB, new_color)

set_pixel_A_and_B(p, st, yA, xA, color, blend) ==
    IF ~InBounds(p, yA, xA) THEN st
    ELSE LET cB == map_coords_A_to_B(p, yA, xA)
         IN  IF ~InBounds(p, cB[1], cB[2]) THEN st
             ELSE IF already_touched(st, <<yA, xA>>) THEN st
             ELSE LET oldA == st.A[<<yA, xA>>]
                      oldB == st.B[cB]
                      new_color == IF blend
                                   THEN blend_with_brush(oldA, st.bcolor, st.opacity)
                                   ELSE color
                  IN  record_and_write(st, yA, xA, cB[1], cB[2], oldA, oldB, new_color)

(* A B-side write that maps through perm where inv_perm is due. *)
set_pixel_B_and_A_forward(p, st, yB, xB, color, blend) ==
    IF ~InBounds(p, yB, xB) THEN st
    ELSE LET cA == map_coords_A_to_B(p, yB, xB)
         IN  IF ~InBounds(p, cA[1], cA[2]) THEN st
             ELSE IF already_touched(st, cA) THEN st
             ELSE LET oldA == st.A[cA]
                      oldB == st.B[<<yB, xB>>]
                      new_color == IF blend
                                   THEN blend_with_brush(oldB, st.bcolor, st.opacity)
                                   ELSE color
                  IN  record_and_write(st, cA[1], cA[2], yB, xB, oldA, oldB, new_color)

set_pixel_B_and_A(p, st, yB, xB, color, blend) ==
    IF ~InBounds(p, yB, xB) THEN st
    ELSE LET cA == map_coords_B_to_A(p, yB, xB)
         IN  IF ~InBounds(p, cA[1], cA[2]) THEN st
             ELSE IF already_touched(st, cA) THEN st
             ELSE LET oldA == st.A[cA]
                      oldB == st.B[<<yB, xB>>]
                      new_color == IF blend
                                   THEN blend_with_brush(oldB, st.bcolor, st.opacity)
                                   ELSE color
                  IN  record_and_write(st, cA[1], cA[2], yB, xB, oldA, oldB, new_color)

(* The offsets of the whole square the two range loops run over, without   *)
(* the distance test.                                                      *)
DiskOffsets_square(radius) ==
    LET n == 2 * radius + 1
    IN  [k \in 1..(n * n) |-> <<((k - 1) \div n) - radius, ((k - 1) % n) - radius>>]

(* The offsets the two nested range loops visit, in loop order, that pass  *)
(* dy*dy + dx*dx <= radius2.                                               *)
DiskOffsets(radius) ==
    LET n == 2 * radius + 1
        all == [k \in 1..(n * n) |-> <<((k - 1) \div n) - radius, ((k - 1) % n) - radius>>]
        InDisk(o) == o[1] * o[1] + o[2] * o[2] <= radius * radius
    IN  SelectSeq(all, InDisk)

RECURSIVE stamp_A(_, _, _, _, _, _, _, _, _)
(* Passes lo .. hi of the disk loop of apply_brush_A, in loop order.  The    *)
(* passes lo .. mid are evaluated before the passes mid+1 .. hi start; a   *)
(* run of passes that all returned early left the state as it was.        *)
stamp_A(p, st, offs, lo, hi, y, x, color, blend) ==
    IF lo > hi THEN st
    ELSE IF lo = hi
    THEN set_pixel_A_and_B(p, st, y + offs[lo][1], x + offs[lo][2], color, blend)
    ELSE LET mid == (lo + hi) \div 2
             first == stamp_A(p, st, offs, lo, mid, y, x, color, blend)
         IN  IF first = st
             THEN stamp_A(p, st, offs, mid + 1, hi, y, x, color, blend)
             ELSE stamp_A(p, first, offs, mid + 1, hi, y, x, color, blend)

RECURSIVE stamp_B(_, _, _, _, _, _, _, _, _)
(* Passes lo .. hi of the disk loop of apply_brush_B, in loop order. *)
stamp_B(p, st, offs, lo, hi, y, x, color, blend) ==
    IF lo > hi THEN st
    ELSE IF lo = hi
    THEN set_pixel_B_and_A(p, st, y + offs[lo][1], x + offs[lo][2], color, blend)
    ELSE LET mid == (lo + hi) \div 2
             first == stamp_B(p, st, offs, lo, mid, y, x, color, blend)
         IN  IF first = st
             THEN stamp_B(p, st, offs, mid + 1, hi, y, x, color, blend)
             ELSE stamp_B(p, first, offs, mid + 1, hi, y, x, color, blend)

(* A copy of rgba that keeps its alpha. *)
opaque_keep_alpha(rgba) == rgba

(* set_brush_color: a copy of rgba with the alpha forced opaque. *)
opaque(rgba) == <<rgba[1], rgba[2], rgba[3], 255>>

(* _propagate_A_to_B: flatB[perm] = flatA. *)
propagate_A_to_B(p, A) ==
    [c \in Grid(p) |-> A[map_coords_B_to_A(p, c[1], c[2])]]

(* A propagation from B that scatters through perm. *)
propagate_B_to_A_forward(p, B) ==
    [c \in Grid(p) |-> B[map_coords_B_to_A(p, c[1], c[2])]]

(* _propagate_B_to_A: flatA[inv_perm] = flatB. *)
propagate_B_to_A(p, B) ==
    [c \in Grid(p) |-> B[map_coords_A_to_B(p, c[1], c[2])]]

RECURSIVE undo_changes_A_only(_, _, _)
(* An undo loop that restores buffer A and leaves buffer B as it is. *)
undo_changes_A_only(img, changes, k) ==
    IF k = 0 THEN img
    ELSE undo_changes_A_only(
             [A |-> [img.A EXCEPT ![<<changes[k].yA, changes[k].xA>>] = changes[k].oldA],
              B |-> img.B],
             changes, k - 1)

RECURSIVE undo_changes(_, _, _)
(* The loop of undo: restore oldA / oldB for k = Len down to 1. *)
undo_changes(img, changes, k) ==
    IF k = 0 THEN img
    ELSE undo_changes([A |-> [img.A EXCEPT ![<<changes[k].yA, changes[k].xA>>] = changes[k].oldA],
                       B |-> [img.B EXCEPT ![<<changes[k].yB, changes[k].xB>>] = changes[k].oldB]],
                      changes, k - 1)

(* A redo loop that stops after the first change. *)
redo_changes_first_only(img, changes, k) ==
    IF k > Len(changes) THEN img
    ELSE [A |-> [img.A EXCEPT ![<<changes[k].yA, changes[k].xA>>] = changes[k].newA],
          B |-> [img.B EXCEPT ![<<changes[k].yB, changes[k].xB>>] = changes[k].newB]]

RECURSIVE redo_changes(_, _, _)
(* The loop of redo: apply newA / newB for k = 1 up to Len. *)
redo_changes(img, changes, k) ==
    IF k > Len(changes) THEN img
    ELSE redo_changes([A |-> [img.A EXCEPT ![<<changes[k].yA, changes[k].xA>>] = changes[k].newA],
                       B |-> [img.B EXCEPT ![<<changes[k].yB, changes[k].xB>>] = changes[k].newB]],
                      changes, k + 1)

(* An absolute value that keeps the sign. *)
Abs_signed(n) == n

Abs(n) == IF n < 0 THEN -n ELSE n

(* _compute_piece_outline_flags for a loaded permutation: flagged_mask_A   *)
(* and flagged_mask_B.                                                     *)
compute_piece_outline_flags(p) ==
    LET neighbors == { <<-1, 0>>, <<1, 0>>, <<0, -1>>, <<0, 1>> }
        is_boundary(c) ==
            \E d \in neighbors :
                /\ InBounds(p, c[1] + d[1], c[2] + d[2])
                /\ LET cB == map_coords_A_to_B(p, c[1], c[2])
                       nB == map_coords_A_to_B(p, c[1] + d[1], c[2] + d[2])
                   IN  Abs(nB[1] - cB[1]) + Abs(nB[2] - cB[2]) # 1
        flagged_A == [c \in Grid(p) |-> is_boundary(c)]
    IN  [A |-> flagged_A,
         B |-> [c \in Grid(p) |->
                  \E a \in Grid(p) : flagged_A[a] /\ map_coords_A_to_B(p, a[1], a[2]) = c]]

(***************************************************************************)
(* History variables.  hist follows the current run of consecutive         *)
(* completed non-empty strokes: pre[i] is the pair of buffers at the       *)
(* begin_stroke of the i-th stroke of the run still on the undo stack,     *)
(* post the buffers at the end_stroke of its last stroke, u and r the      *)
(* numbers of undo and redo calls issued right after the run.  last names  *)
(* what the last step did.                                                 *)
(***************************************************************************)
NoRun ==
    [phase |-> "idle", pre |-> <<>>, cur |-> None, post |-> None,
     u |-> 0, r |-> 0, uni |-> FALSE, ev |-> FALSE]

(* last: the operation of the last step, a number n and the argument arg   *)
(* it was called with, and whether it raised an exception to its caller.   *)
DidAt(op, n, arg) == [op |-> op, n |-> n, arg |-> arg, raised |-> FALSE]

Did(op, n) == DidAt(op, n, None)

Raise(op, arg) == [op |-> op, n |-> 0, arg |-> arg, raised |-> TRUE]

(* ur holds the last (at most two) consecutive effective undo / redo calls *)
(* and the buffers each of them started from.                              *)
NoCalls == [ops |-> <<>>, snaps |-> <<>>]

LastTwo(s) == IF Len(s) > 2 THEN Tail(s) ELSE s

UrCall(op, buffers) ==
    [ops |-> LastTwo(Append(ur.ops, op)), snaps |-> LastTwo(Append(ur.snaps, buffers))]

Buffers == <<imgA, imgB>>

HistBegin ==
    [phase |-> "open",
     pre |-> IF hist.phase = "idle" THEN hist.pre ELSE <<>>,
     cur |-> Some(Buffers),
     post |-> None, u |-> 0, r |-> 0,
     uni |-> (current_tool = BRUSH),
     ev |-> IF hist.phase = "idle" THEN hist.ev ELSE FALSE]

HistPaint == IF hist.phase = "open" THEN hist ELSE NoRun

HistSetter == IF hist.phase = "open" THEN [hist EXCEPT !.uni = FALSE] ELSE hist

HistEnd(pushed, newUndo, buffers) ==
    IF hist.phase = "open"
    THEN IF pushed
         THEN LET all == Append(hist.pre, hist.cur[1])
                  lost == Len(all) > Len(newUndo)
              IN  [phase |-> "idle",
                   pre |-> IF lost THEN Tail(all) ELSE all,
                   cur |-> None, post |-> Some(buffers), u |-> 0, r |-> 0,
                   uni |-> FALSE, ev |-> (hist.ev \/ lost)]
         ELSE NoRun
    ELSE IF pushed THEN NoRun ELSE hist

HistUndo ==
    IF hist.phase = "idle" /\ Len(hist.pre) >= 1
    THEN [hist EXCEPT !.phase = "undo", !.u = 1, !.r = 0]
    ELSE IF hist.phase = "undo" /\ hist.u < Len(hist.pre)
    THEN [hist EXCEPT !.u = hist.u + 1]
    ELSE NoRun

HistRedo ==
    IF hist.phase = "undo"
    THEN [hist EXCEPT !.phase = "redo", !.r = 1]
    ELSE IF hist.phase = "redo" /\ hist.r < hist.u
    THEN [hist EXCEPT !.r = hist.r + 1]
    ELSE NoRun

(***************************************************************************)
(* The controller.                                                         *)
(***************************************************************************)
Constructed ==
    /\ permutation = None
    /\ imgA = None
    /\ imgB = None
    /\ current_tool = BRUSH
    /\ brush_color = <<0, 0, 0, 255>>
    /\ brush_opacity_percent = 100
    /\ brush_radius = 4
    /\ undo_stack = <<>>
    /\ redo_stack = <<>>
    /\ current_stroke = None
    /\ stroke_touched_A = None
    /\ flagged_mask_A = None
    /\ flagged_mask_B = None
    /\ hist = NoRun
    /\ ur = NoCalls
    /\ used = [strokes |-> 0, applies |-> 0, sets |-> 0, loads |-> 0]

Init == Constructed /\ last = Did("init", 0)

(* A fresh canvas of opaque black. *)
ZeroImage_opaque(p) == [c \in Grid(p) |-> <<0, 0, 0, 255>>]

ZeroImage(p) == [c \in Grid(p) |-> <<0, 0, 0, 0>>]

(* A load that clears the history before the array is validated. *)
load_permutation_clears_first(raw) ==
    /\ LET perm_model == from_npy(raw)
       IN  IF perm_model = None
           THEN /\ undo_stack' = <<>>
                /\ redo_stack' = <<>>
                /\ current_stroke' = None
                /\ last' = Raise("load_permutation_failed", raw)
                /\ ur' = NoCalls
                /\ hist' = NoRun
                /\ UNCHANGED <<permutation, flagged_mask_A, flagged_mask_B, imgA, imgB,
                               current_tool, brush_color, brush_opacity_percent,
                               brush_radius, stroke_touched_A>>
           ELSE /\ permutation' = perm_model
                /\ imgA' = Some(ZeroImage(perm_model[1]))
                /\ imgB' = Some(ZeroImage(perm_model[1]))
                /\ undo_stack' = <<>>
                /\ redo_stack' = <<>>
                /\ current_stroke' = None
                /\ \E flags \in {compute_piece_outline_flags(perm_model[1])} :
                       /\ flagged_mask_A' = Some(flags.A)
                       /\ flagged_mask_B' = Some(flags.B)
                /\ hist' = NoRun
                /\ last' = DidAt("load_permutation", Len(undo_stack) + Len(redo_stack), raw)
                /\ ur' = NoCalls
                /\ UNCHANGED <<current_tool, brush_color, brush_opacity_percent,
                               brush_radius, stroke_touched_A>>

load_permutation(raw) ==
    /\ LET perm_model == from_npy(raw)
       IN  IF perm_model = None
           THEN /\ UNCHANGED <<progVars, hist>>
                /\ last' = Raise("load_permutation_failed", raw)
                /\ ur' = NoCalls
           ELSE /\ permutation' = perm_model
                /\ imgA' = Some(ZeroImage(perm_model[1]))
                /\ imgB' = Some(ZeroImage(perm_model[1]))
                /\ undo_stack' = <<>>
                /\ redo_stack' = <<>>
                /\ current_stroke' = None
                /\ \E flags \in {compute_piece_outline_flags(perm_model[1])} :
                       /\ flagged_mask_A' = Some(flags.A)
                       /\ flagged_mask_B' = Some(flags.B)
                /\ hist' = NoRun
                /\ last' = DidAt("load_permutation", Len(undo_stack) + Len(redo_stack), raw)
                /\ ur' = NoCalls
                /\ UNCHANGED <<current_tool, brush_color, brush_opacity_percent,
                               brush_radius, stroke_touched_A>>

load_image_into_A ==
    /\ IF permutation = None
       THEN /\ UNCHANGED <<progVars, hist>>
            /\ last' = Raise("load_image_failed", "A")
            /\ ur' = NoCalls
       ELSE \E arr \in ImageInputs(permutation[1]) :
                /\ imgA' = Some(arr)
                /\ imgB' = Some(propagate_A_to_B(permutation[1], arr))
                /\ undo_stack' = <<>>
                /\ redo_stack' = <<>>
                /\ current_stroke' = None
                /\ hist' = NoRun
                /\ last' = DidAt("load_image_into_A", Len(undo_stack) + Len(redo_stack), arr)
                /\ ur' = NoCalls
                /\ UNCHANGED <<permutation, flagged_mask_A, flagged_mask_B, current_tool, brush_color,
                               brush_opacity_percent, brush_radius, stroke_touched_A>>

load_image_into_B ==
    /\ IF permutation = None
       THEN /\ UNCHANGED <<progVars, hist>>
            /\ last' = Raise("load_image_failed", "B")
            /\ ur' = NoCalls
       ELSE \E arr \in ImageInputs(permutation[1]) :
                /\ imgB' = Some(arr)
                /\ imgA' = Some(propagate_B_to_A(permutation[1], arr))
                /\ undo_stack' = <<>>
                /\ redo_stack' = <<>>
                /\ current_stroke' = None
                /\ hist' = NoRun
                /\ last' = DidAt("load_image_into_B", Len(undo_stack) + Len(redo_stack), arr)
                /\ ur' = NoCalls
                /\ UNCHANGED <<permutation, flagged_mask_A, flagged_mask_B, current_tool, brush_color,
                               brush_opacity_percent, brush_radius, stroke_touched_A>>

set_tool(tool) ==
    /\ current_tool' = tool
    /\ hist' = HistSetter
    /\ last' = Did("set", 0)
    /\ ur' = NoCalls
    /\ UNCHANGED <<permutation, flagged_mask_A, flagged_mask_B, imgA, imgB, brush_color, brush_opacity_percent,
                   brush_radius, undo_stack, redo_stack, current_stroke,
                   stroke_touched_A>>

set_brush_color(rgba) ==
    /\ brush_color' = opaque(rgba)
    /\ hist' = HistSetter
    /\ last' = Did("set", 0)
    /\ ur' = NoCalls
    /\ UNCHANGED <<permutation, flagged_mask_A, flagged_mask_B, imgA, imgB, current_tool, brush_opacity_percent,
                   brush_radius, undo_stack, redo_stack, current_stroke,
                   stroke_touched_A>>

Max(a, b) == IF a >= b THEN a ELSE b

(* A minimum that returns its second argument: no upper clamp. *)
Min_second(a, b) == b

Min(a, b) == IF a <= b THEN a ELSE b

set_brush_radius(radius) ==
    /\ brush_radius' = Max(1, radius)
    /\ last' = Did("set", 0)
    /\ ur' = NoCalls
    /\ UNCHANGED <<permutation, flagged_mask_A, flagged_mask_B, imgA, imgB, current_tool, brush_color,
                   brush_opacity_percent, undo_stack, redo_stack, current_stroke,
                   stroke_touched_A, hist>>

set_brush_opacity_percent(opacity_percent) ==
    /\ brush_opacity_percent' = Max(0, Min(100, opacity_percent))
    /\ hist' = HistSetter
    /\ last' = Did("set", 0)
    /\ ur' = NoCalls
    /\ UNCHANGED <<permutation, flagged_mask_A, flagged_mask_B, imgA, imgB, current_tool, brush_color,
                   brush_radius, undo_stack, redo_stack, current_stroke,
                   stroke_touched_A>>

(* A disk loop in which the Eraser blends as the Brush does. *)
paint_eraser_blends(side, y, x) ==
    LET st0 == EditState(imgA[1], imgB[1], current_stroke, stroke_touched_A,
                         brush_color, brush_opacity_percent)
        offs == DiskOffsets(brush_radius)
    IN  IF side = "A"
        THEN stamp_A(permutation[1], st0, offs, 1, Len(offs), y, x, brush_color, TRUE)
        ELSE stamp_B(permutation[1], st0, offs, 1, Len(offs), y, x, brush_color, TRUE)

(* The Brush / Eraser branch of apply_brush_A and apply_brush_B: the state  *)
(* after the disk loop.                                                    *)
paint(side, y, x) ==
    LET is_brush == current_tool = BRUSH
        color == IF is_brush THEN brush_color ELSE eraser_color
        st0 == EditState(imgA[1], imgB[1], current_stroke, stroke_touched_A,
                         brush_color, brush_opacity_percent)
        offs == DiskOffsets(brush_radius)
    IN  IF side = "A"
        THEN stamp_A(permutation[1], st0, offs, 1, Len(offs), y, x, color, is_brush)
        ELSE stamp_B(permutation[1], st0, offs, 1, Len(offs), y, x, color, is_brush)

(* The number of in-bounds disk positions the dedup test skips. *)
DedupHits(side, y, x) ==
    LET p == permutation[1]
        offs == DiskOffsets(brush_radius)
        Key(k) == IF side = "A" THEN <<y + offs[k][1], x + offs[k][2]>>
                  ELSE map_coords_B_to_A(p, y + offs[k][1], x + offs[k][2])
    IN  Cardinality({ k \in 1..Len(offs) :
                        /\ InBounds(p, y + offs[k][1], x + offs[k][2])
                        /\ current_stroke # None
                        /\ stroke_touched_A # None
                        /\ Key(k) \in stroke_touched_A[1] })

apply_brush(side, y, x) ==
    /\ IF permutation = None \/ imgA = None \/ imgB = None
       THEN /\ UNCHANGED <<progVars, hist>>
            /\ last' = Did("apply_not_ready", 0)
            /\ ur' = NoCalls
       ELSE IF current_tool \in {BRUSH, ERASER}
       THEN \E st \in {paint(side, y, x)} :
                /\ imgA' = Some(st.A)
                /\ imgB' = Some(st.B)
                /\ current_stroke' = st.cs
                /\ stroke_touched_A' = st.t
                /\ hist' = HistPaint
                /\ last' = DidAt("paint", DedupHits(side, y, x), <<side, y, x>>)
                /\ ur' = NoCalls
                /\ UNCHANGED <<permutation, flagged_mask_A, flagged_mask_B, current_tool, brush_color,
                               brush_opacity_percent, brush_radius,
                               undo_stack, redo_stack>>
       ELSE IF InBounds(permutation[1], y, x)
       THEN /\ brush_color' = opaque(opaque(IF side = "A" THEN imgA[1][<<y, x>>]
                                                             ELSE imgB[1][<<y, x>>]))
            /\ hist' = HistSetter
            /\ last' = DidAt("pick", 0, <<side, y, x>>)
            /\ ur' = NoCalls
            /\ UNCHANGED <<permutation, flagged_mask_A, flagged_mask_B, imgA, imgB, current_tool,
                           brush_opacity_percent, brush_radius, undo_stack,
                           redo_stack, current_stroke, stroke_touched_A>>
       ELSE /\ UNCHANGED <<progVars, hist>>
            /\ last' = DidAt("pick_outside", 0, <<side, y, x>>)
            /\ ur' = NoCalls

apply_brush_A(y, x) == apply_brush("A", y, x)

apply_brush_B(y, x) == apply_brush("B", y, x)

(* A begin_stroke that keeps the redo stack. *)
begin_stroke_keep_redo ==
    /\ current_stroke' = Some(<<>>)
    /\ stroke_touched_A' = Some({})
    /\ hist' = HistBegin
    /\ last' = Did("begin_stroke", Len(redo_stack))
    /\ ur' = NoCalls
    /\ UNCHANGED <<permutation, flagged_mask_A, flagged_mask_B, imgA, imgB, current_tool, brush_color,
                   brush_opacity_percent, brush_radius, undo_stack, redo_stack>>

begin_stroke ==
    /\ current_stroke' = Some(<<>>)
    /\ redo_stack' = <<>>
    /\ stroke_touched_A' = Some({})
    /\ hist' = HistBegin
    /\ last' = Did("begin_stroke", Len(redo_stack))
    /\ ur' = NoCalls
    /\ UNCHANGED <<permutation, flagged_mask_A, flagged_mask_B, imgA, imgB, current_tool, brush_color,
                   brush_opacity_percent, brush_radius, undo_stack>>

(* An eviction that pops the newest entry where the oldest is due. *)
pushed_stack_drop_newest(stack, stroke) ==
    LET appended == Append(stack, stroke)
    IN  IF Len(appended) > max_undo THEN SubSeq(appended, 1, Len(appended) - 1)
        ELSE appended

(* The undo stack end_stroke leaves. *)
pushed_stack(stack, stroke) ==
    LET appended == Append(stack, stroke)
    IN  IF Len(appended) > max_undo THEN Tail(appended) ELSE appended

end_stroke ==
    LET pushes == current_stroke # None /\ current_stroke[1] # <<>>
        newUndo == IF pushes THEN pushed_stack(undo_stack, current_stroke[1])
                   ELSE undo_stack
    IN  /\ undo_stack' = newUndo
        /\ current_stroke' = None
        /\ stroke_touched_A' = None
        /\ hist' = HistEnd(pushes, newUndo, Buffers)
        /\ last' = IF pushes
                   THEN Did("end_push", Len(undo_stack))
                   ELSE IF current_stroke # None
                   THEN Did("end_empty", Cardinality(stroke_touched_A[1]))
                   ELSE Did("end_none", 0)
        /\ ur' = NoCalls
        /\ UNCHANGED <<permutation, flagged_mask_A, flagged_mask_B, imgA, imgB, current_tool, brush_color,
                       brush_opacity_percent, brush_radius, redo_stack>>

(* A can_undo that needs two strokes on the stack. *)
can_undo_two == Len(undo_stack) > 1

can_undo == Len(undo_stack) > 0

can_redo == Len(redo_stack) > 0

undo ==
    IF ~can_undo
    THEN /\ last' = Did("undo_noop", 0)
         /\ ur' = NoCalls
         /\ UNCHANGED <<progVars, hist>>
    ELSE LET stroke == undo_stack[Len(undo_stack)]
         IN  \E img \in {undo_changes([A |-> imgA[1], B |-> imgB[1]], stroke, Len(stroke))} :
             /\ undo_stack' = SubSeq(undo_stack, 1, Len(undo_stack) - 1)
             /\ imgA' = Some(img.A)
             /\ imgB' = Some(img.B)
             /\ redo_stack' = Append(redo_stack, stroke)
             /\ hist' = HistUndo
             /\ last' = Did("undo", 0)
             /\ ur' = UrCall("undo", Buffers)
             /\ UNCHANGED <<permutation, flagged_mask_A, flagged_mask_B, current_tool, brush_color,
                            brush_opacity_percent, brush_radius, current_stroke,
                            stroke_touched_A>>

redo ==
    IF ~can_redo
    THEN /\ last' = Did("redo_noop", 0)
         /\ ur' = NoCalls
         /\ UNCHANGED <<progVars, hist>>
    ELSE LET stroke == redo_stack[Len(redo_stack)]
         IN  \E img \in {redo_changes([A |-> imgA[1], B |-> imgB[1]], stroke, 1)} :
             /\ redo_stack' = SubSeq(redo_stack, 1, Len(redo_stack) - 1)
             /\ imgA' = Some(img.A)
             /\ imgB' = Some(img.B)
             /\ undo_stack' = Append(undo_stack, stroke)
             /\ hist' = HistRedo
             /\ last' = Did("redo", 0)
             /\ ur' = UrCall("redo", Buffers)
             /\ UNCHANGED <<permutation, flagged_mask_A, flagged_mask_B, current_tool, brush_color,
                            brush_opacity_percent, brush_radius, current_stroke,
                            stroke_touched_A>>

(***************************************************************************)
(* The front end's pointer handlers (main.py).  Each calls the controller  *)
(* unless no permutation is loaded.                                        *)
(***************************************************************************)
(* The disk loop of an apply that directly follows begin_stroke. *)
paint_in_new_stroke(side, y, x) ==
    LET is_brush == current_tool = BRUSH
        color == IF is_brush THEN brush_color ELSE eraser_color
        st0 == EditState(imgA[1], imgB[1], Some(<<>>), Some({}),
                         brush_color, brush_opacity_percent)
        offs == DiskOffsets(brush_radius)
    IN  IF side = "A"
        THEN stamp_A(permutation[1], st0, offs, 1, Len(offs), y, x, color, is_brush)
        ELSE stamp_B(permutation[1], st0, offs, 1, Len(offs), y, x, color, is_brush)

(* _stroke_begin_A / _stroke_begin_B: begin_stroke(), then apply_brush_A / *)
(* apply_brush_B on the state begin_stroke left.                           *)
stroke_begin(side, y, x) ==
    IF permutation = None
    THEN /\ last' = Did("press_not_ready", 0)
         /\ UNCHANGED <<progVars, hist, ur>>
    ELSE /\ redo_stack' = <<>>
         /\ ur' = NoCalls
         /\ UNCHANGED <<permutation, flagged_mask_A, flagged_mask_B, current_tool,
                        brush_opacity_percent, brush_radius, undo_stack>>
         /\ IF current_tool \in {BRUSH, ERASER} /\ imgA # None /\ imgB # None
            THEN \E st \in {paint_in_new_stroke(side, y, x)} :
                     /\ imgA' = Some(st.A)
                     /\ imgB' = Some(st.B)
                     /\ current_stroke' = st.cs
                     /\ stroke_touched_A' = st.t
                     /\ hist' = HistBegin
                     /\ last' = DidAt("press_paint", Len(redo_stack), <<side, y, x>>)
                     /\ UNCHANGED brush_color
            ELSE IF current_tool = EYEDROPPER /\ imgA # None /\ imgB # None
                    /\ InBounds(permutation[1], y, x)
            THEN /\ brush_color' = opaque(opaque(IF side = "A" THEN imgA[1][<<y, x>>]
                                                                  ELSE imgB[1][<<y, x>>]))
                 /\ current_stroke' = Some(<<>>)
                 /\ stroke_touched_A' = Some({})
                 /\ hist' = [HistBegin EXCEPT !.uni = FALSE]
                 /\ last' = DidAt("press_pick", Len(redo_stack), <<side, y, x>>)
                 /\ UNCHANGED <<imgA, imgB>>
            ELSE /\ current_stroke' = Some(<<>>)
                 /\ stroke_touched_A' = Some({})
                 /\ hist' = HistBegin
                 /\ last' = DidAt("press_pick_outside", Len(redo_stack), <<side, y, x>>)
                 /\ UNCHANGED <<imgA, imgB, brush_color>>

stroke_begin_A(y, x) == stroke_begin("A", y, x)

stroke_begin_B(y, x) == stroke_begin("B", y, x)

(* _stroke_move_A / _stroke_move_B *)
stroke_move(side, y, x) ==
    IF permutation = None
    THEN /\ last' = Did("move_not_ready", 0)
         /\ UNCHANGED <<progVars, hist, ur>>
    ELSE apply_brush(side, y, x)

stroke_move_A(y, x) == stroke_move("A", y, x)

stroke_move_B(y, x) == stroke_move("B", y, x)

(* _stroke_end_A / _stroke_end_B *)
stroke_end ==
    IF permutation = None
    THEN /\ last' = Did("release_not_ready", 0)
         /\ UNCHANGED <<progVars, hist, ur>>
    ELSE end_stroke

(* Every step is charged to one of the four budgets of the exploration. *)
Charge(kind, max) ==
    /\ used[kind] < max
    /\ used' = [used EXCEPT ![kind] = @ + 1]

Next ==
    \/ Charge("loads", MaxLoad) /\ \E raw \in PermInputs : load_permutation(raw)
    \/ Charge("loads", MaxLoad) /\ load_image_into_A
    \/ Charge("loads", MaxLoad) /\ load_image_into_B
    \/ Charge("sets", MaxSet) /\ \E tool \in Tool : set_tool(tool)
    \/ Charge("sets", MaxSet) /\ \E rgba \in ColorInputs : set_brush_color(rgba)
    \/ Charge("sets", MaxSet) /\ \E radius \in RadiusInputs : set_brush_radius(radius)
    \/ Charge("sets", MaxSet) /\ \E o \in OpacityInputs : set_brush_opacity_percent(o)
    \/ Charge("applies", MaxApply) /\ \E c \in CoordInputsA : apply_brush_A(c[1], c[2])
    \/ Charge("applies", MaxApply) /\ \E c \in CoordInputsB : apply_brush_B(c[1], c[2])
    \/ Charge("strokes", MaxStrokes) /\ begin_stroke
    \/ UNCHANGED used /\ end_stroke
    \/ UNCHANGED used /\ undo
    \/ UNCHANGED used /\ redo

Spec == Init /\ [][Next]_vars

(* The history explored deeper, with the brush left as constructed: the    *)
(* loads that succeed, then strokes, undo and redo.                        *)
NextHistory ==
    \/ Charge("loads", DeepLoad) /\ \E raw \in ValidPermInputs : load_permutation(raw)
    \/ Charge("loads", DeepLoad) /\ load_image_into_A
    \/ Charge("applies", DeepApply) /\ \E c \in CoordInputsA : apply_brush_A(c[1], c[2])
    \/ Charge("applies", DeepApply) /\ \E c \in CoordInputsB : apply_brush_B(c[1], c[2])
    \/ Charge("strokes", DeepStrokes) /\ begin_stroke
    \/ UNCHANGED used /\ end_stroke
    \/ UNCHANGED used /\ undo
    \/ UNCHANGED used /\ redo

SpecHistory == Init /\ [][NextHistory]_vars

(* Loads between and during strokes, with the brush left as constructed. *)
NextReload ==
    \/ Charge("loads", ReloadLoad) /\ \E raw \in PermInputs : load_permutation(raw)
    \/ Charge("loads", ReloadLoad) /\ load_image_into_A
    \/ Charge("loads", ReloadLoad) /\ load_image_into_B
    \/ Charge("applies", ReloadApply) /\ \E c \in CoordInputsA : apply_brush_A(c[1], c[2])
    \/ Charge("applies", ReloadApply) /\ \E c \in CoordInputsB : apply_brush_B(c[1], c[2])
    \/ Charge("strokes", ReloadStrokes) /\ begin_stroke
    \/ UNCHANGED used /\ end_stroke
    \/ UNCHANGED used /\ undo
    \/ UNCHANGED used /\ redo

SpecReload == Init /\ [][NextReload]_vars

(* The tools within one stroke: tool and radius changes, applies at        *)
(* centres in and out of the canvas on either side.                        *)
NextTools ==
    \/ Charge("loads", ToolLoad) /\ \E raw \in ValidPermInputs : load_permutation(raw)
    \/ Charge("loads", ToolLoad) /\ load_image_into_A
    \/ Charge("sets", ToolSet) /\ \E tool \in Tool : set_tool(tool)
    \/ Charge("sets", ToolSet) /\ \E radius \in RadiusInputs : set_brush_radius(radius)
    \/ Charge("applies", ToolApply) /\ \E c \in ToolCoordInputs : apply_brush_A(c[1], c[2])
    \/ Charge("applies", ToolApply) /\ \E c \in ToolCoordInputs : apply_brush_B(c[1], c[2])
    \/ Charge("strokes", ToolStrokes) /\ begin_stroke
    \/ UNCHANGED used /\ end_stroke

SpecTools == Init /\ [][NextTools]_vars

(* Pointer gestures of the front end on either canvas, with tool changes,  *)
(* undo and redo between them.                                             *)
NextGesture ==
    \/ Charge("loads", GestureLoad) /\ \E raw \in ValidPermInputs : load_permutation(raw)
    \/ Charge("loads", GestureLoad) /\ load_image_into_A
    \/ Charge("sets", GestureSet) /\ \E tool \in Tool : set_tool(tool)
    \/ Charge("strokes", GestureStrokes) /\ \E c \in GestureCoordInputs : stroke_begin_A(c[1], c[2])
    \/ Charge("strokes", GestureStrokes) /\ \E c \in GestureCoordInputs : stroke_begin_B(c[1], c[2])
    \/ Charge("applies", GestureApply) /\ \E c \in GestureCoordInputs : stroke_move_A(c[1], c[2])
    \/ Charge("applies", GestureApply) /\ \E c \in GestureCoordInputs : stroke_move_B(c[1], c[2])
    \/ UNCHANGED used /\ stroke_end
    \/ UNCHANGED used /\ undo
    \/ UNCHANGED used /\ redo

SpecGesture == Init /\ [][NextGesture]_vars

(* PermutationModel.from_npy on its own: a freshly constructed controller   *)
(* is given one array, last.arg, and loads it.                              *)
InitPerm == Constructed /\ last \in { DidAt("given", 0, raw) : raw \in PermArrays }

load_given == last.op = "given" /\ UNCHANGED used /\ load_permutation(last.arg)

NextPerm == load_given

SpecPerm == InitPerm /\ [][NextPerm]_vars

(* The Brush with every opacity, or the Eraser with a few. *)
BlendToolInputs ==
    { <<BRUSH, old, opacity>> : old \in BlendPixelInputs, opacity \in BlendOpacityInputs }
    \cup { <<ERASER, old, opacity>> : old \in EraserPixelInputs, opacity \in EraserOpacityInputs }

(* _blend_with_brush and the Eraser on their own: a 1 x 1 canvas holding   *)
(* one pixel, a tool, a brush colour and an opacity as the setters store   *)
(* them, then one stroke of applies on either side.                        *)
InitBlend ==
    \E given \in BlendToolInputs, colour \in BlendColorInputs :
      LET old == given[2]
          opacity == given[3]
      IN
        /\ permutation = from_npy([ndim |-> 1, data |-> <<0>>])
        /\ imgA = Some([c \in Grid(permutation[1]) |-> old])
        /\ imgB = Some(propagate_A_to_B(permutation[1], imgA[1]))
        /\ current_tool = given[1]
        /\ brush_color = opaque(colour)
        /\ brush_opacity_percent = Max(0, Min(100, opacity))
        /\ brush_radius = 4
        /\ undo_stack = <<>>
        /\ redo_stack = <<>>
        /\ current_stroke = None
        /\ stroke_touched_A = None
        /\ flagged_mask_A = Some(compute_piece_outline_flags(permutation[1]).A)
        /\ flagged_mask_B = Some(compute_piece_outline_flags(permutation[1]).B)
        /\ hist = NoRun
        /\ ur = NoCalls
        /\ used = [strokes |-> 0, applies |-> 0, sets |-> 0, loads |-> 0]
        /\ last = DidAt("given", 0, <<old, colour, opacity>>)

NextBlend ==
    \/ Charge("strokes", BlendStrokes) /\ begin_stroke
    \/ Charge("applies", BlendApply) /\ apply_brush_A(0, 0)
    \/ Charge("applies", BlendApply) /\ apply_brush_B(0, 0)
    \/ UNCHANGED used /\ end_stroke

SpecBlend == InitBlend /\ [][NextBlend]_vars

(***************************************************************************)
(* Properties.                                                             *)
(***************************************************************************)
Flat(img, p, i) == img[<<i \div p.W, i % p.W>>]

Strokes == {undo_stack[i] : i \in 1..Len(undo_stack)}
               \cup {redo_stack[i] : i \in 1..Len(redo_stack)}
               \cup {current_stroke[i] : i \in 1..Len(current_stroke)}

(* C1: once a permutation is loaded, in every reachable state in which no  *)
(* stroke is open, B[perm[i]] = A[i] for every linear index i.             *)
C1_BuffersConsistent ==
    (permutation # None /\ current_stroke = None) =>
        \A i \in 0..(permutation[1].H * permutation[1].W - 1) :
            Flat(imgB[1], permutation[1], permutation[1].perm[i])
                = Flat(imgA[1], permutation[1], i)

C1_Witness ==
    /\ permutation # None
    /\ permutation[1].H = 2
    /\ current_stroke = None
    /\ last.op = "redo"
    /\ imgA[1][<<0, 0>>] # imgA[1][<<1, 1>>]

(* C2: an undo issued right after the end_stroke that pushed a stroke made  *)
(* of begin_stroke and apply calls leaves both buffers equal to the values  *)
(* they held at that stroke's begin_stroke.                                 *)
C2_UndoRestoresPreStroke ==
    (hist.phase = "undo" /\ hist.u = 1) => Buffers = hist.pre[Len(hist.pre)]

C2_Witness ==
    /\ hist.phase = "undo"
    /\ hist.u = 1
    /\ Len(redo_stack[Len(redo_stack)]) >= 2
    /\ Buffers # hist.post[1]

(* C3: an effective undo followed immediately by redo, and an effective    *)
(* redo followed immediately by undo, leave both buffers as they were      *)
(* before the first call of the pair.                                      *)
C3_UndoRedoRoundTrip ==
    (Len(ur.ops) = 2 /\ ur.ops[1] # ur.ops[2]) => Buffers = ur.snaps[1]

(* C4: after a run of k consecutive completed non-empty strokes, j <= k    *)
(* consecutive undo calls restore the buffers held before the j-th last    *)
(* stroke, and as many redo calls after them restore the buffers held      *)
(* after the last stroke.                                                  *)
C4_MultiStepUndoRedo ==
    /\ hist.phase = "undo" => Buffers = hist.pre[Len(hist.pre) - hist.u + 1]
    /\ (hist.phase = "redo" /\ hist.r = hist.u) => Buffers = hist.post[1]

C4_Witness ==
    /\ hist.phase = "redo"
    /\ hist.u = 2
    /\ hist.r = 2
    /\ Buffers # hist.pre[1]

(* C5: in an open stroke painted with one unchanged Brush setting, every    *)
(* pixel touched holds, on both sides, the blend of its pre-stroke colour   *)
(* with the brush colour applied once, however often the disk covered it.   *)
C5_BlendOnce ==
    (hist.phase = "open" /\ hist.uni /\ current_tool = BRUSH /\ permutation # None) =>
        \A key \in stroke_touched_A[1] :
            LET once == blend_with_brush(hist.cur[1][1][1][key], brush_color,
                                         brush_opacity_percent)
            IN  /\ imgA[1][key] = once
                /\ imgB[1][map_coords_A_to_B(permutation[1], key[1], key[2])] = once

C5_Witness ==
    /\ hist.phase = "open"
    /\ hist.uni
    /\ current_tool = BRUSH
    /\ brush_opacity_percent = 50
    /\ last.op = "paint"
    /\ last.n >= 1
    /\ Buffers # hist.cur[1]

(* C6: every stroke, open or on the undo or redo stack, holds at most one  *)
(* PixelChange per A-side coordinate.                                      *)
C6_OneChangePerCoordinate ==
    \A stroke \in Strokes :
        \A i, j \in 1..Len(stroke) :
            (stroke[i].yA = stroke[j].yA /\ stroke[i].xA = stroke[j].xA) => i = j

C6_Witness ==
    /\ current_stroke # None
    /\ Len(current_stroke[1]) >= 2
    /\ last.op = "paint"
    /\ last.n >= 1

(* C7: the undo stack never holds more than max_undo strokes. *)
C7_UndoDepthBounded == Len(undo_stack) <= max_undo

(* C8: an end_stroke that pushes onto an undo stack of max_undo strokes     *)
(* removes exactly the oldest and keeps the others in order; max_undo undo  *)
(* calls after a run that evicted a stroke empty the undo stack and leave   *)
(* the buffers as the evicted stroke left them.                             *)
C8_EvictsOldest ==
    /\ [][(last'.op = "end_push" /\ last'.n = max_undo) =>
             undo_stack' = Append(Tail(undo_stack), current_stroke[1])]_vars
    /\ []((hist.ev /\ hist.phase = "undo" /\ hist.u = max_undo) =>
             /\ Len(hist.pre) = max_undo
             /\ undo_stack = <<>>
             /\ Buffers = hist.pre[1])

C8_Witness ==
    /\ hist.ev
    /\ hist.phase = "undo"
    /\ hist.u = max_undo

(* C9: begin_stroke leaves the redo stack, the open stroke and the dedup   *)
(* set empty, and the buffers, the undo stack, the tool and the brush      *)
(* settings as they were.                                                  *)
C9_BeginStrokeFrame ==
    [][last'.op = "begin_stroke" =>
          /\ redo_stack' = <<>>
          /\ current_stroke' = Some(<<>>)
          /\ stroke_touched_A' = Some({})
          /\ UNCHANGED <<imgA, imgB, undo_stack, current_tool, brush_color,
                         brush_opacity_percent, brush_radius>>]_vars

C9_Witness ==
    /\ last.op = "begin_stroke"
    /\ last.n >= 1
    /\ permutation # None

(* C10: end_stroke pushes the open stroke exactly when it recorded a       *)
(* PixelChange, and clears the open stroke and the dedup set either way;   *)
(* a stroke records a PixelChange exactly when it changed a pixel value,   *)
(* and no stroke on the undo or redo stack is empty.                       *)
C10_EndStroke ==
    /\ [][last'.op \in {"end_push", "end_empty", "end_none"} =>
             /\ IF current_stroke # None /\ current_stroke[1] # <<>>
                THEN /\ undo_stack' # <<>>
                     /\ undo_stack'[Len(undo_stack')] = current_stroke[1]
                ELSE undo_stack' = undo_stack
             /\ current_stroke' = None
             /\ stroke_touched_A' = None]_vars
    /\ [](\A i \in 1..Len(undo_stack) : undo_stack[i] # <<>>)
    /\ [](\A i \in 1..Len(redo_stack) : redo_stack[i] # <<>>)
    /\ [](hist.phase = "open" => ((current_stroke[1] = <<>>) <=> (Buffers = hist.cur[1])))

C10_Witness ==
    /\ last.op = "end_empty"
    /\ last.n >= 1

(* C11: undo on an empty undo stack and redo on an empty redo stack change *)
(* neither the buffers nor the stacks; otherwise undo moves the top of the *)
(* undo stack to the top of the redo stack and redo moves the top of the   *)
(* redo stack to the top of the undo stack, the other entries keeping      *)
(* their order; can_undo / can_redo hold exactly when the respective stack *)
(* is non-empty.                                                           *)
C11_UndoRedoMoveTop ==
    /\ [][/\ last'.op = "undo_noop" =>
                 undo_stack = <<>> /\ UNCHANGED <<imgA, imgB, undo_stack, redo_stack>>
          /\ last'.op = "redo_noop" =>
                 redo_stack = <<>> /\ UNCHANGED <<imgA, imgB, undo_stack, redo_stack>>
          /\ last'.op = "undo" =>
                 /\ undo_stack # <<>>
                 /\ undo_stack = Append(undo_stack', redo_stack'[Len(redo_stack')])
                 /\ redo_stack' = Append(redo_stack, undo_stack[Len(undo_stack)])
          /\ last'.op = "redo" =>
                 /\ redo_stack # <<>>
                 /\ redo_stack = Append(redo_stack', undo_stack'[Len(undo_stack')])
                 /\ undo_stack' = Append(undo_stack, redo_stack[Len(redo_stack)])]_vars
    /\ [](can_undo <=> undo_stack # <<>>)
    /\ [](can_redo <=> redo_stack # <<>>)

C11_Witness ==
    /\ last.op = "redo"
    /\ Len(undo_stack) = 2
    /\ Len(redo_stack) = 0
    /\ undo_stack[1] # undo_stack[2]

IsPermutation(data) == { data[i] : i \in 1..Len(data) } = 0..(Len(data) - 1)

PerfectSquare(N) == \E k \in 0..N : k * k = N

LoadedFrom(data) ==
    /\ permutation # None
    /\ permutation[1].H * permutation[1].H = Len(data)
    /\ permutation[1].W = permutation[1].H
    /\ permutation[1].perm = [i \in 0..(Len(data) - 1) |-> data[i + 1]]

(* C12 as stated: a permutation load succeeds exactly when the input is    *)
(* 1-dimensional, a permutation of [0, N) and N is a perfect square; then  *)
(* H = W = sqrt(N) and perm is the input; every other input fails.         *)
C12_LoadIffPermutationOfSquare ==
    last.op \in {"load_permutation", "load_permutation_failed"} =>
        /\ ~last.raised <=>
              /\ last.arg.ndim = 1
              /\ IsPermutation(last.arg.data)
              /\ PerfectSquare(Len(last.arg.data))
        /\ ~last.raised => LoadedFrom(last.arg.data)
        /\ last.raised => permutation = None

(* C12 as amended: the same for the inputs of length N >= 1; the empty     *)
(* array fails.                                                            *)
C12_LoadIffNonEmptyPermutationOfSquare ==
    last.op \in {"load_permutation", "load_permutation_failed"} =>
        /\ ~last.raised <=>
              /\ last.arg.ndim = 1
              /\ Len(last.arg.data) >= 1
              /\ IsPermutation(last.arg.data)
              /\ PerfectSquare(Len(last.arg.data))
        /\ ~last.raised => LoadedFrom(last.arg.data)
        /\ last.raised => permutation = None

C12_Witness ==
    /\ last.op = "load_permutation"
    /\ Len(last.arg.data) = 9
    /\ permutation[1].H = 3
    /\ permutation[1].perm[0] = 8

(* C13: a permutation load that fails leaves the loaded permutation, both  *)
(* buffers, both stacks, the open stroke and the outline masks as they     *)
(* were.                                                                   *)
C13_FailedLoadChangesNothing ==
    [][last'.op = "load_permutation_failed" =>
          UNCHANGED <<permutation, imgA, imgB, undo_stack, redo_stack,
                      current_stroke, flagged_mask_A, flagged_mask_B>>]_vars

C13_Witness ==
    /\ last.op = "load_permutation_failed"
    /\ last.arg.ndim = 1
    /\ permutation # None
    /\ undo_stack # <<>>
    /\ current_stroke # None
    /\ current_stroke[1] # <<>>
    /\ imgA # Some(ZeroImage(permutation[1]))

(* C14: for a loaded permutation inv_perm[perm[i]] = i and                 *)
(* perm[inv_perm[j]] = j for all i, j in [0, N); the two coordinate maps   *)
(* are inverse to each other on the in-bounds coordinates and return       *)
(* in-bounds coordinates.                                                  *)
C14_MapsAreInverse ==
    permutation # None =>
        LET p == permutation[1]
        IN  /\ \A i \in 0..(p.H * p.W - 1) :
                   p.inv_perm[p.perm[i]] = i /\ p.perm[p.inv_perm[i]] = i
            /\ \A c \in Grid(p) :
                   LET cB == map_coords_A_to_B(p, c[1], c[2])
                       cA == map_coords_B_to_A(p, c[1], c[2])
                   IN  /\ InBounds(p, cB[1], cB[2])
                       /\ InBounds(p, cA[1], cA[2])
                       /\ map_coords_B_to_A(p, cB[1], cB[2]) = c
                       /\ map_coords_A_to_B(p, cA[1], cA[2]) = c

C14_Witness ==
    /\ last.op = "load_permutation"
    /\ permutation[1].H = 3
    /\ permutation[1].perm # permutation[1].inv_perm
    /\ map_coords_A_to_B(permutation[1], 0, 0) = <<2, 2>>

Consistent(p, A, B) ==
    \A i \in 0..(p.H * p.W - 1) : Flat(B, p, p.perm[i]) = Flat(A, p, i)

(* C15: a successful load_image_into_A (load_image_into_B) leaves buffer A *)
(* (B) equal to the supplied pixels, the other buffer such that            *)
(* B[perm[i]] = A[i] for every i, and both stacks empty.                   *)
C15_ImageLoadPropagates ==
    [][/\ last'.op = "load_image_into_A" =>
             /\ imgA' = Some(last'.arg)
             /\ Consistent(permutation[1], imgA'[1], imgB'[1])
             /\ undo_stack' = <<>> /\ redo_stack' = <<>>
       /\ last'.op = "load_image_into_B" =>
             /\ imgB' = Some(last'.arg)
             /\ Consistent(permutation[1], imgA'[1], imgB'[1])
             /\ undo_stack' = <<>> /\ redo_stack' = <<>>]_vars

C15_Witness ==
    /\ last.op = "load_image_into_B"
    /\ last.n >= 1
    /\ permutation[1].H = 2
    /\ imgA # imgB

RecordedUnder(p, change) ==
    /\ InBounds(p, change.yA, change.xA)
    /\ InBounds(p, change.yB, change.xB)
    /\ <<change.yB, change.xB>> = map_coords_A_to_B(p, change.yA, change.xA)

(* C16: a successful permutation load leaves both buffers H x W with every *)
(* channel 0, both stacks empty and no stroke open, and every stroke on    *)
(* the stacks at any later time was recorded under the loaded permutation. *)
C16_PermutationLoadResets ==
    /\ [][last'.op = "load_permutation" =>
             /\ DOMAIN imgA'[1] = Grid(permutation'[1])
             /\ DOMAIN imgB'[1] = Grid(permutation'[1])
             /\ \A c \in Grid(permutation'[1]) : \A k \in 1..4 :
                    imgA'[1][c][k] = 0 /\ imgB'[1][c][k] = 0
             /\ undo_stack' = <<>> /\ redo_stack' = <<>>
             /\ current_stroke' = None]_vars
    /\ [](\A i \in 1..Len(undo_stack) : \A k \in 1..Len(undo_stack[i]) :
             RecordedUnder(permutation[1], undo_stack[i][k]))
    /\ [](\A i \in 1..Len(redo_stack) : \A k \in 1..Len(redo_stack[i]) :
             RecordedUnder(permutation[1], redo_stack[i][k]))

C16_Witness ==
    /\ last.op = "load_permutation"
    /\ last.n >= 1
    /\ permutation[1].H = 1

(* C17: an apply with the Eyedropper at an in-bounds (y, x) sets the brush *)
(* colour to the RGB of that pixel of the side applied to, with alpha 255, *)
(* and leaves buffers, open stroke, dedup set and stacks unchanged; at an  *)
(* out-of-bounds (y, x) it changes nothing.                                *)
C17_EyedropperPicks ==
    [][last'.op \in {"pick", "pick_outside"} =>
          LET y == last'.arg[2]
              x == last'.arg[3]
              img == IF last'.arg[1] = "A" THEN imgA[1] ELSE imgB[1]
          IN  IF InBounds(permutation[1], y, x)
              THEN /\ brush_color' = <<img[<<y, x>>][1], img[<<y, x>>][2],
                                       img[<<y, x>>][3], 255>>
                   /\ UNCHANGED <<imgA, imgB, current_stroke, stroke_touched_A,
                                  undo_stack, redo_stack>>
              ELSE UNCHANGED progVars]_vars

C17_Witness ==
    /\ last.op = "pick"
    /\ last.arg = <<"B", 0, 0>>
    /\ imgB[1][<<0, 0>>][4] = 128
    /\ imgB[1][<<0, 0>>] # imgA[1][<<0, 0>>]
    /\ current_stroke # None
    /\ current_stroke[1] # <<>>

(* The in-range positions of the disk of the given radius about (y, x). *)
DiskInRange(p, radius, y, x) ==
    { c \in Grid(p) : (c[1] - y) * (c[1] - y) + (c[2] - x) * (c[2] - x) <= radius * radius }

(* C18: a Brush or Eraser apply changes no pixel but the in-range          *)
(* positions of its disk and their images on the paired side, the buffers  *)
(* keep their H x W shape, every in-range position not yet touched in the  *)
(* stroke receives the tool's colour on both sides and is marked touched,  *)
(* and a call whose whole disk is out of range leaves the buffers and the  *)
(* open stroke unchanged.                                                  *)
C18_DiskClipped ==
    [][last'.op = "paint" =>
          LET p == permutation[1]
              side == last'.arg[1]
              disk == DiskInRange(p, brush_radius, last'.arg[2], last'.arg[3])
              keysA == IF side = "A" THEN disk
                       ELSE { map_coords_B_to_A(p, c[1], c[2]) : c \in disk }
              keysB == IF side = "B" THEN disk
                       ELSE { map_coords_A_to_B(p, c[1], c[2]) : c \in disk }
              seen(k) == current_stroke # None /\ stroke_touched_A # None
                             /\ k \in stroke_touched_A[1]
              colour(k) ==
                  IF current_tool = ERASER THEN eraser_color
                  ELSE blend_with_brush(
                           IF side = "A" THEN imgA[1][k]
                           ELSE imgB[1][map_coords_A_to_B(p, k[1], k[2])],
                           brush_color, brush_opacity_percent)
          IN  /\ DOMAIN imgA'[1] = Grid(p) /\ DOMAIN imgB'[1] = Grid(p)
              /\ \A c \in Grid(p) \ keysA : imgA'[1][c] = imgA[1][c]
              /\ \A c \in Grid(p) \ keysB : imgB'[1][c] = imgB[1][c]
              /\ \A k \in keysA :
                     ~seen(k) =>
                        /\ imgA'[1][k] = colour(k)
                        /\ imgB'[1][map_coords_A_to_B(p, k[1], k[2])] = colour(k)
              /\ (current_stroke # None /\ stroke_touched_A # None) =>
                     stroke_touched_A' = Some(stroke_touched_A[1] \cup keysA)
              /\ disk = {} => UNCHANGED <<imgA, imgB, current_stroke>>]_vars

C18_Witness ==
    /\ last.op = "paint"
    /\ last.arg = <<"A", -1, 0>>
    /\ brush_radius = 1
    /\ current_stroke # None
    /\ Len(current_stroke[1]) = 1
    /\ stroke_touched_A = Some({<<0, 0>>})

IsPrefix(s, t) == Len(s) <= Len(t) /\ SubSeq(t, 1, Len(s)) = s

(* C19: an open stroke stays open, with the changes it has recorded, over  *)
(* every step that is neither end_stroke nor begin_stroke.                 *)
C19_StrokeOpenUntilEnd ==
    [][(/\ current_stroke # None
        /\ last'.op \notin {"end_push", "end_empty", "end_none", "begin_stroke"}) =>
          /\ current_stroke' # None
          /\ IsPrefix(current_stroke[1], current_stroke'[1])]_vars

(* C20: a Brush or Eraser apply or an image load called while no           *)
(* permutation is loaded raises to its caller and leaves buffers, history  *)
(* and brush state unchanged.                                              *)
C20_NotReadyIsReported ==
    [][(/\ permutation = None
        /\ \/ last'.op = "load_image_failed"
           \/ last'.op = "apply_not_ready" /\ current_tool \in {BRUSH, ERASER}) =>
          /\ last'.raised
          /\ UNCHANGED progVars]_vars

(* The image of c on the paired side: through perm from side A, through   *)
(* inv_perm from side B.                                                   *)
Paired(p, side, c) ==
    IF side = "A" THEN map_coords_A_to_B(p, c[1], c[2])
    ELSE map_coords_B_to_A(p, c[1], c[2])

(* C21: a Brush or Eraser apply at (y, x) on side S with radius r, in a    *)
(* stroke that has touched nothing yet, writes on side S exactly the       *)
(* in-bounds pixels (y+dy, x+dx) with dy*dy + dx*dx <= r*r and on the      *)
(* paired side exactly their images under the permutation; each such pair  *)
(* ends up holding the identical RGBA value, the tool's result for the     *)
(* pixel of side S; no other pixel of either buffer changes.               *)
C21_DiskWrittenOnBothSides ==
    [][(/\ last'.op = "paint"
        /\ current_stroke # None
        /\ stroke_touched_A = Some({})) =>
          LET p == permutation[1]
              side == last'.arg[1]
              disk == DiskInRange(p, brush_radius, last'.arg[2], last'.arg[3])
              images == { Paired(p, side, c) : c \in disk }
              old == IF side = "A" THEN imgA[1] ELSE imgB[1]
              oldPaired == IF side = "A" THEN imgB[1] ELSE imgA[1]
              new == IF side = "A" THEN imgA'[1] ELSE imgB'[1]
              newPaired == IF side = "A" THEN imgB'[1] ELSE imgA'[1]
              result(c) == IF current_tool = ERASER THEN eraser_color
                           ELSE blend_with_brush(old[c], brush_color, brush_opacity_percent)
          IN  /\ \A c \in disk :
                     /\ new[c] = result(c)
                     /\ newPaired[Paired(p, side, c)] = new[c]
              /\ \A c \in Grid(p) \ disk : new[c] = old[c]
              /\ \A c \in Grid(p) \ images : newPaired[c] = oldPaired[c]
              /\ stroke_touched_A' = Some(IF side = "A" THEN disk ELSE images)]_vars

C21_Witness ==
    /\ last.op = "paint"
    /\ last.arg = <<"B", 0, 0>>
    /\ last.n = 0
    /\ brush_radius = 1
    /\ permutation[1].H = 2
    /\ current_stroke # None
    /\ Len(current_stroke[1]) = 3
    /\ Cardinality(stroke_touched_A[1]) = 3

(* C22: for every old pixel, brush colour and opacity in [0, 100] the      *)
(* Brush writes, per RGB channel, an integer of 0..255 nearest to          *)
(* ((100 - opacity) * old + opacity * brush) / 100, and the old pixel's    *)
(* alpha; opacity 0 writes the old pixel and opacity 100 the brush RGB     *)
(* with the old alpha.                                                     *)
C22_BlendRounded ==
    [][(/\ last'.op = "paint"
        /\ current_tool = BRUSH
        /\ brush_opacity_percent \in 0..100) =>
          LET p == permutation[1]
              side == last'.arg[1]
              disk == DiskInRange(p, brush_radius, last'.arg[2], last'.arg[3])
              keyA(c) == IF side = "A" THEN c ELSE Paired(p, side, c)
              fresh == { c \in disk : ~(/\ current_stroke # None
                                        /\ stroke_touched_A # None
                                        /\ keyA(c) \in stroke_touched_A[1]) }
              old(c) == IF side = "A" THEN imgA[1][c] ELSE imgB[1][c]
              new(c) == IF side = "A" THEN imgA'[1][c] ELSE imgB'[1][c]
              exact(c, ch) == (100 - brush_opacity_percent) * old(c)[ch]
                                  + brush_opacity_percent * brush_color[ch]
          IN  \A c \in fresh :
                  /\ \A ch \in 1..3 :
                         /\ new(c)[ch] \in 0..255
                         /\ Abs(100 * new(c)[ch] - exact(c, ch)) <= 50
                  /\ new(c)[4] = old(c)[4]
                  /\ brush_opacity_percent = 0 => new(c) = old(c)
                  /\ brush_opacity_percent = 100 =>
                         new(c) = <<brush_color[1], brush_color[2], brush_color[3], old(c)[4]>>]_vars

C22_Witness ==
    /\ last.op = "paint"
    /\ current_tool = BRUSH
    /\ brush_opacity_percent = 50
    /\ brush_color = <<2, 2, 253, 255>>
    /\ current_stroke # None
    /\ Len(current_stroke[1]) = 1
    /\ current_stroke[1][1].oldA = <<1, 254, 128, 128>>
    /\ current_stroke[1][1].newA = <<2, 128, 190, 128>>
    /\ imgA[1][<<0, 0>>] = current_stroke[1][1].newA

(* C23: with the Eraser, every pixel of the disk not yet touched in the    *)
(* stroke is set to (0, 0, 0, 0) on the side applied to and on the paired  *)
(* side, whatever the brush colour and the opacity, and a PixelChange is   *)
(* recorded for it only when it was not already (0, 0, 0, 0) on both       *)
(* sides.                                                                  *)
C23_EraserClears ==
    [][(last'.op = "paint" /\ current_tool = ERASER) =>
          LET p == permutation[1]
              side == last'.arg[1]
              disk == DiskInRange(p, brush_radius, last'.arg[2], last'.arg[3])
              keysA == IF side = "A" THEN disk ELSE { Paired(p, side, c) : c \in disk }
              fresh == { k \in keysA : ~(/\ current_stroke # None
                                         /\ stroke_touched_A # None
                                         /\ k \in stroke_touched_A[1]) }
              clear == <<0, 0, 0, 0>>
              before == IF current_stroke = None THEN 0 ELSE Len(current_stroke[1])
              added == IF current_stroke' = None THEN {}
                       ELSE { current_stroke'[1][i] : i \in (before + 1)..Len(current_stroke'[1]) }
          IN  /\ \A k \in fresh :
                     /\ imgA'[1][k] = clear
                     /\ imgB'[1][Paired(p, "A", k)] = clear
              /\ \A change \in added :
                     /\ <<change.yA, change.xA>> \in fresh
                     /\ imgA[1][<<change.yA, change.xA>>] # clear
                            \/ imgB[1][<<change.yB, change.xB>>] # clear]_vars

C23_Witness ==
    /\ last.op = "paint"
    /\ current_tool = ERASER
    /\ brush_opacity_percent = 0
    /\ brush_color = <<255, 255, 0, 255>>
    /\ current_stroke # None
    /\ Len(current_stroke[1]) = 1
    /\ current_stroke[1][1].oldB = <<255, 0, 128, 128>>
    /\ imgA[1][<<0, 0>>] = <<0, 0, 0, 0>>
    /\ imgB[1][<<0, 0>>] = <<0, 0, 0, 0>>

(* C24: in every reachable state the brush radius is at least 1, the      *)
(* opacity is within 0..100 and the brush colour has alpha 255, whatever   *)
(* was passed to the setters or picked by the Eyedropper; the tool,        *)
(* colour, radius and opacity setters leave both buffers, the open stroke  *)
(* and both stacks unchanged.                                              *)
C24_BrushStateClamped ==
    /\ [](/\ brush_radius >= 1
          /\ brush_opacity_percent \in 0..100
          /\ brush_color[4] = 255)
    /\ [][last'.op = "set" =>
             UNCHANGED <<imgA, imgB, current_stroke, undo_stack, redo_stack>>]_vars

C24_Witness ==
    /\ last.op = "set"
    /\ brush_opacity_percent = 0
    /\ undo_stack # <<>>
    /\ current_stroke # None
    /\ current_stroke[1] # <<>>
    /\ imgA # Some(ZeroImage(permutation[1]))

(* The steps between two cells at Manhattan distance 1. *)
UnitSteps == { <<-1, 0>>, <<1, 0>>, <<0, -1>>, <<0, 1>> }

(* C25: after a permutation load the A-indexed outline mask flags a pixel  *)
(* exactly when some in-bounds 4-neighbour of it is mapped to a            *)
(* B-coordinate whose Manhattan distance from the pixel's own              *)
(* B-coordinate is not 1; the B-indexed mask holds at perm[i] what the     *)
(* A-indexed mask holds at i; the identity permutation flags no pixel.     *)
C25_OutlineFlags ==
    last.op = "load_permutation" =>
        LET p == permutation[1]
            N == p.H * p.W
            At(i) == <<i \div p.W, i % p.W>>
            B(c) == At(p.perm[c[1] * p.W + c[2]])
            apart(c, q) == <<B(q)[1] - B(c)[1], B(q)[2] - B(c)[2]>> \notin UnitSteps
        IN  /\ DOMAIN flagged_mask_A[1] = Grid(p)
            /\ DOMAIN flagged_mask_B[1] = Grid(p)
            /\ \A c \in Grid(p) :
                   flagged_mask_A[1][c] <=>
                       \E d \in UnitSteps :
                           /\ <<c[1] + d[1], c[2] + d[2]>> \in Grid(p)
                           /\ apart(c, <<c[1] + d[1], c[2] + d[2]>>)
            /\ \A i \in 0..(N - 1) :
                   flagged_mask_B[1][At(p.perm[i])] = flagged_mask_A[1][At(i)]
            /\ (\A i \in 0..(N - 1) : p.perm[i] = i) =>
                   \A c \in Grid(p) : ~flagged_mask_A[1][c] /\ ~flagged_mask_B[1][c]

C25_Witness ==
    /\ last.op = "load_permutation"
    /\ permutation[1].H = 3
    /\ permutation[1].perm[0] = 1
    /\ ~flagged_mask_A[1][<<0, 0>>]
    /\ flagged_mask_A[1][<<0, 2>>]
    /\ flagged_mask_B[1][<<1, 0>>]
    /\ ~flagged_mask_B[1][<<0, 1>>]

(* C26: in every reachable state in which a stroke is open the redo stack  *)
(* is empty; hence whenever end_stroke pushes a stroke onto the undo stack *)
(* the redo stack is empty.                                                *)
C26_NoRedoWhileStrokeOpen ==
    /\ [](current_stroke # None => redo_stack = <<>>)
    /\ [][last'.op = "end_push" => redo_stack' = <<>>]_vars

(* C27: every pixel a Brush or Eraser apply changes is recorded as a       *)
(* PixelChange of the open stroke; an apply issued while no stroke is open *)
(* leaves both buffers unchanged.                                          *)
C27_MutationsAreRecorded ==
    [][last'.op = "paint" =>
          IF current_stroke = None
          THEN UNCHANGED <<imgA, imgB>>
          ELSE /\ current_stroke' # None
               /\ \A c \in Grid(permutation[1]) :
                      imgA'[1][c] # imgA[1][c] =>
                          \E i \in (Len(current_stroke[1]) + 1)..Len(current_stroke'[1]) :
                              /\ current_stroke'[1][i].yA = c[1]
                              /\ current_stroke'[1][i].xA = c[2]
               /\ \A c \in Grid(permutation[1]) :
                      imgB'[1][c] # imgB[1][c] =>
                          \E i \in (Len(current_stroke[1]) + 1)..Len(current_stroke'[1]) :
                              /\ current_stroke'[1][i].yB = c[1]
                              /\ current_stroke'[1][i].xB = c[2]]_vars

(* C28: in every reachable state every PixelChange of every stroke, open,  *)
(* on the undo stack or on the redo stack, has in-bounds coordinates with  *)
(* (yB, xB) the image of (yA, xA) under the permutation currently loaded,  *)
(* newA = newB and oldA = oldB.                                            *)
C28_ChangesArePaired ==
    \A stroke \in Strokes :
        \A k \in 1..Len(stroke) :
            /\ permutation # None
            /\ RecordedUnder(permutation[1], stroke[k])
            /\ stroke[k].newA = stroke[k].newB
            /\ stroke[k].oldA = stroke[k].oldB

C28_Witness ==
    /\ permutation # None
    /\ permutation[1].H = 2
    /\ undo_stack # <<>>
    /\ redo_stack # <<>>
    /\ current_stroke # None
    /\ current_stroke[1] # <<>>
    /\ <<current_stroke[1][1].yB, current_stroke[1][1].xB>>
           # <<current_stroke[1][1].yA, current_stroke[1][1].xA>>

(* C29: a complete pointer gesture made with the Eyedropper (press, moves, *)
(* release, on canvas A or B) leaves the undo stack and the redo stack as  *)
(* they were before it, and changes nothing but the brush colour: no       *)
(* handler of the gesture changes a stack, a buffer or another setting.    *)
C29_EyedropperGestureKeepsHistory ==
    [][(/\ current_tool = EYEDROPPER
        /\ \/ last'.op \in {"press_pick", "press_pick_outside", "pick", "pick_outside"}
           \/ /\ last'.op \in {"end_push", "end_empty", "end_none"}
              /\ current_stroke = Some(<<>>)) =>
          UNCHANGED <<undo_stack, redo_stack, imgA, imgB, current_tool,
                      brush_radius, brush_opacity_percent>>]_vars

====
